---- MODULE Spec2Model ----
(***************************************************************************)
(* Thrift Savings Management (src/app.py): the ThriftManager store, its    *)
(* interest engine, the bulk import with its sample fallback, the page     *)
(* handlers that mutate the store and the per-member summary panel.        *)
(*                                                                         *)
(* Money: principal amounts (Recovery, ThriftBalance, Paid, Balance) are   *)
(* whole rupees; InterestAmount and the summary figures are paise          *)
(* (hundredths of a rupee), the unit round(x, 2) produces.  InterestRate   *)
(* is kept in tenths of a percent: 108 is 10.8, 85 is 8.5.                 *)
(***************************************************************************)
EXTENDS Integers, Sequences, FiniteSets, TLC

VARIABLES
    doc,        \* thrift_data.json: [kind, value]
    mockFile,   \* attached_assets/mock_thrift_data_1754567673631.json
    data,       \* manager.data, the in-memory mapping MemberID -> record
    pc,         \* position of the current script run of main()
    last,       \* the operation that ran last, its arguments and outcome
    calc,       \* the call of calculate_interest made by the last operation
    summary     \* what display_member_details rendered as the summary panel

vars == <<doc, mockFile, data, pc, last, calc, summary>>

----------------------------------------------------------------------------
(* Bounds of the model *)

\* longest ThriftRecords sequence the add-transaction operations build
MaxRecords == 2

\* longest element list of the import file
MaxMock == 2

----------------------------------------------------------------------------
(* Dictionaries *)

EmptyMap == [k \in {} |-> k]

Put(f, k, v) == [x \in DOMAIN f \cup {k} |-> IF x = k THEN v ELSE f[x]]

\* dict.get(k, default)
Get(f, k, default) == IF k \in DOMAIN f THEN f[k] ELSE default

\* dict.pop(k) leaves the dictionary without k
Without(f, k) == [x \in DOMAIN f \ {k} |-> f[x]]

----------------------------------------------------------------------------
(* Interest engine: ThriftManager.calculate_interest *)

\* recovery_amount >= 100000 selects 10.8, anything below 8.5
TierRateStrict(recovery_amount) == IF recovery_amount > 100000 THEN 108 ELSE 85

TierRate(recovery_amount) == IF recovery_amount >= 100000 THEN 108 ELSE 85

\* "Bulk" if has_receipt else "Monthly", the same in both tiers
TransactionTypeOf(has_receipt) == IF has_receipt THEN "Bulk" ELSE "Monthly"

\* f"{interest_rate}%": 108 -> "10.8%", 85 -> "8.5%"
InterestBandOf(rate) == ToString(rate \div 10) \o "." \o ToString(rate % 10) \o "%"

\* The exact value of recovery_amount * rate * days_held / 36500 in paise is
\* recovery_amount * k / PaiseDivisor with k = (rate in tenths) * days_held.
\* It is split as q * k + (r * k) / PaiseDivisor with
\* recovery_amount = q * PaiseDivisor + r so that no product leaves 32 bits.
PaiseDivisor == 3650

InterestFloor(recovery_amount, k) ==
    (recovery_amount \div PaiseDivisor) * k
        + ((recovery_amount % PaiseDivisor) * k) \div PaiseDivisor

InterestRem(recovery_amount, k) ==
    ((recovery_amount % PaiseDivisor) * k) % PaiseDivisor

\* A faulty variant: the amount cut to 2 decimals instead of rounded.
Round2Truncating(recovery_amount, k, tieUp) == InterestFloor(recovery_amount, k)

\* round(interest_amount, 2).  interest_amount is a binary double: off a tie
\* the nearest paisa is returned; on an exact decimal tie the double lies on
\* either side of it (0.085 -> 0.09, 1.275 -> 1.27), so both neighbours are
\* outcomes and tieUp chooses.
Round2(recovery_amount, k, tieUp) ==
    LET fl  == InterestFloor(recovery_amount, k)
        rem == InterestRem(recovery_amount, k)
    IN  IF 2 * rem > PaiseDivisor THEN fl + 1
        ELSE IF 2 * rem < PaiseDivisor THEN fl
        ELSE IF tieUp THEN fl + 1 ELSE fl

calculate_interest(recovery_amount, days_held, has_receipt, tieUp) ==
    LET interest_rate == TierRate(recovery_amount)
    IN  [InterestRate    |-> interest_rate,
         InterestAmount  |-> Round2(recovery_amount, interest_rate * days_held, tieUp),
         TransactionType |-> TransactionTypeOf(has_receipt),
         InterestBand    |-> InterestBandOf(interest_rate)]

NoCalc == [called |-> FALSE]

CalcOf(recovery_amount, days_held, has_receipt, tieUp) ==
    [called          |-> TRUE,
     recovery_amount |-> recovery_amount,
     days_held       |-> days_held,
     has_receipt     |-> has_receipt,
     result          |-> calculate_interest(recovery_amount, days_held, has_receipt, tieUp)]

----------------------------------------------------------------------------
(* The persisted document and the store: class ThriftManager *)

\* json.dump(self.data, f, indent=2, default=str) of a mapping whose values
\* are strings, numbers, None, lists and dicts: a JSON object with the same
\* keys and values
MapDoc(d) == [kind |-> "map", value |-> d]

\* A manager is the pair of self.data and the file self.data_file names.
Manager == [data |-> data, doc |-> doc]

\* A faulty variant: the list shape is converted by MemberID instead of dropped.
RECURSIVE KeyedByMemberID(_)
KeyedByMemberID(elems) ==
    IF elems = <<>> THEN EmptyMap
    ELSE LET rest == KeyedByMemberID(Tail(elems))
         IN  IF "MemberID" \in DOMAIN Head(elems)
             THEN Put(rest, Head(elems).MemberID, Without(Head(elems), "MemberID"))
             ELSE rest

load_data_converting(d) ==
    IF d.kind = "map" THEN d.value
    ELSE IF d.kind = "seq" THEN KeyedByMemberID(d.value)
    ELSE EmptyMap

\* os.path.exists, then isinstance(data, dict); json.load of a document that
\* is no JSON raises, which LoadData below handles
load_data(d) ==
    IF d.kind # "absent"
    THEN IF d.kind = "map" THEN d.value ELSE EmptyMap
    ELSE EmptyMap

save_data(m) == [m EXCEPT !.doc = MapDoc(m.data)]

add_member(m, member_id, member_data) ==
    save_data([m EXCEPT !.data = Put(m.data, member_id, member_data)])

update_member(m, member_id, member_data) ==
    save_data([m EXCEPT !.data = Put(m.data, member_id, member_data)])

AppendRecord(member, transaction) ==
    LET withRecords ==
            IF "ThriftRecords" \notin DOMAIN member
            THEN Put(member, "ThriftRecords", <<>>)
            ELSE member
    IN  Put(withRecords, "ThriftRecords",
            Append(withRecords["ThriftRecords"], transaction))

\* A faulty variant: add_transaction that creates the member it does not find.
add_transaction_creating(m, member_id, transaction) ==
    [ret |-> TRUE,
     m   |-> save_data([m EXCEPT !.data =
                 Put(m.data, member_id,
                     AppendRecord(Get(m.data, member_id, EmptyMap), transaction))])]

add_transaction(m, member_id, transaction) ==
    IF member_id \notin DOMAIN m.data
    THEN [ret |-> FALSE, m |-> m]
    ELSE [ret |-> TRUE,
          m   |-> save_data([m EXCEPT !.data =
                      Put(m.data, member_id,
                          AppendRecord(m.data[member_id], transaction))])]

----------------------------------------------------------------------------
(* Bulk import and its fallback *)

sample_member ==
    [MemberName     |-> "Ramu Parasinma",
     MSNo           |-> "7036",
     ShareCapital   |-> 800,
     OpeningBalance |-> [Date |-> "2024-12-31", ThriftBalance |-> 375463],
     ThriftRecords  |-> <<[Date            |-> "2025-01-14",
                           Recovery        |-> 120000,
                           ReceiptNumber   |-> "RCP123",
                           Paid            |-> 495463,
                           Balance         |-> 495463,
                           DaysHeld        |-> 167,
                           InterestRate    |-> 108,
                           InterestAmount  |-> 591074,
                           TransactionType |-> "Bulk",
                           InterestBand    |-> "10.8%"]>>]

SampleID == "1070135"

init_basic_sample_data(m) ==
    IF SampleID \notin DOMAIN m.data
    THEN add_member(m, SampleID, sample_member)
    ELSE m

\* The for loop of load_mock_data over the first n elements: each element is
\* copied, MemberID popped out of the copy and the copy stored under it.
RECURSIVE ImportLoop(_, _, _)
ImportLoop(d, elems, n) ==
    IF n = 0 THEN d
    ELSE LET before == ImportLoop(d, elems, n - 1)
         IN  Put(before, elems[n].MemberID, Without(elems[n], "MemberID"))

\* the index of the first element whose pop("MemberID") raises KeyError,
\* 0 when every element carries a MemberID
FirstBad(elems) ==
    IF \E i \in 1..Len(elems) : "MemberID" \notin DOMAIN elems[i]
    THEN CHOOSE i \in 1..Len(elems) :
            /\ "MemberID" \notin DOMAIN elems[i]
            /\ \A j \in 1..(i - 1) : "MemberID" \in DOMAIN elems[j]
    ELSE 0

\* A faulty variant: the import without its emptiness guard.
load_mock_data_unguarded(m, file) ==
    IF file.kind # "list" THEN init_basic_sample_data(m)
    ELSE IF FirstBad(file.elems) = 0
         THEN save_data([m EXCEPT !.data = ImportLoop(m.data, file.elems, Len(file.elems))])
         ELSE init_basic_sample_data(
                 [m EXCEPT !.data = ImportLoop(m.data, file.elems, FirstBad(file.elems) - 1)])

\* A faulty variant: the import that gives up on a failure instead of falling back.
load_mock_data_no_fallback(m, file) ==
    IF m.data # EmptyMap THEN m
    ELSE IF file.kind # "list" THEN m
    ELSE IF FirstBad(file.elems) = 0
         THEN save_data([m EXCEPT !.data = ImportLoop(m.data, file.elems, Len(file.elems))])
         ELSE [m EXCEPT !.data = ImportLoop(m.data, file.elems, FirstBad(file.elems) - 1)]

\* if not manager.data: open, json.load, the loop, save_data.  A missing file
\* raises FileNotFoundError, an unreadable one (no permission, no JSON, a top
\* level that is no list of objects) another exception before the first
\* insertion, an element without MemberID raises KeyError after the elements
\* before it were inserted; every handler calls init_basic_sample_data.
load_mock_data(m, file) ==
    IF m.data # EmptyMap THEN m
    ELSE IF file.kind = "missing" THEN init_basic_sample_data(m)
    ELSE IF file.kind = "unreadable" THEN init_basic_sample_data(m)
    ELSE IF FirstBad(file.elems) = 0
         THEN save_data([m EXCEPT !.data = ImportLoop(m.data, file.elems, Len(file.elems))])
         ELSE init_basic_sample_data(
                 [m EXCEPT !.data = ImportLoop(m.data, file.elems, FirstBad(file.elems) - 1)])

----------------------------------------------------------------------------
(* Per-member summary: display_member_details and display_summary_panel *)

NoSummary == [shown |-> FALSE]

RECURSIVE SumRecovery(_)
SumRecovery(transactions) ==
    IF transactions = <<>> THEN 0
    ELSE Get(Head(transactions), "Recovery", 0) + SumRecovery(Tail(transactions))

\* sum(t.get('InterestAmount', 0) for t in transactions if t.get('InterestRate') == rate)
RECURSIVE SumInterestAt(_, _)
SumInterestAt(transactions, rate) ==
    IF transactions = <<>> THEN 0
    ELSE (IF /\ "InterestRate" \in DOMAIN Head(transactions)
             /\ Head(transactions).InterestRate = rate
          THEN Get(Head(transactions), "InterestAmount", 0)
          ELSE 0)
         + SumInterestAt(Tail(transactions), rate)

ToPaise(rupees) == rupees * 100

\* A faulty variant: the final balance without the interest.
SummaryOfWithoutInterest(member, transactions) ==
    LET total_recovery  == SumRecovery(transactions)
        interest_108    == SumInterestAt(transactions, 108)
        interest_85     == SumInterestAt(transactions, 85)
        opening_balance == Get(Get(member, "OpeningBalance", EmptyMap), "ThriftBalance", 0)
    IN  [shown          |-> TRUE,
         total_recovery |-> ToPaise(total_recovery),
         interest_108   |-> interest_108,
         interest_85    |-> interest_85,
         grand_interest |-> interest_108 + interest_85,
         final_balance  |-> ToPaise(opening_balance) + ToPaise(total_recovery)]

\* the totals of display_summary_panel
SummaryOf(member, transactions) ==
    LET total_recovery  == SumRecovery(transactions)
        interest_108    == SumInterestAt(transactions, 108)
        interest_85     == SumInterestAt(transactions, 85)
        grand_interest  == interest_108 + interest_85
        opening_balance == Get(Get(member, "OpeningBalance", EmptyMap), "ThriftBalance", 0)
    IN  [shown          |-> TRUE,
         total_recovery |-> ToPaise(total_recovery),
         interest_108   |-> interest_108,
         interest_85    |-> interest_85,
         grand_interest |-> grand_interest,
         final_balance  |-> ToPaise(opening_balance) + ToPaise(total_recovery)
                                + grand_interest]

\* returns before any figure is computed when there is no transaction
display_summary_panel(member) ==
    LET transactions == Get(member, "ThriftRecords", <<>>)
    IN  IF transactions = <<>> THEN NoSummary
        ELSE SummaryOf(member, transactions)

\* the summary panel is rendered only under "if transactions:"
display_member_details(member) ==
    LET transactions == Get(member, "ThriftRecords", <<>>)
    IN  IF transactions # <<>> THEN display_summary_panel(member)
        ELSE NoSummary

----------------------------------------------------------------------------
(* Inputs *)

IDs == {SampleID, "2000001"}

\* JSON null / Python None
None == "<None>"

SeqUpTo(S, n) == UNION {[1..k -> S] : k \in 0..n}

\* Elements of the import file: Member-like objects carrying MemberID, one
\* without ThriftRecords and OpeningBalance, one repeating a MemberID, and
\* one that carries no MemberID.
MockElems ==
    {[MemberID |-> SampleID, MemberName |-> "Asha", MSNo |-> "7036",
      ShareCapital |-> 800,
      OpeningBalance |-> [Date |-> "2024-12-31", ThriftBalance |-> 375463],
      ThriftRecords |-> <<>>],
     [MemberID |-> "2000001", MemberName |-> "Bina"],
     [MemberID |-> "2000001", MemberName |-> "Chitra", ThriftRecords |-> <<>>],
     [MemberName |-> "Nobody"]}

MockFiles ==
    {[kind |-> "missing", elems |-> <<>>], [kind |-> "unreadable", elems |-> <<>>]}
    \cup {[kind |-> "list", elems |-> s] : s \in SeqUpTo(MockElems, MaxMock)}

\* What thrift_data.json holds before the first run: nothing, a JSON list
\* (the export format), a JSON scalar, bytes that are no JSON, or a mapping.
InitDocs ==
    {[kind |-> "absent", value |-> 0],
     [kind |-> "seq", value |-> <<[MemberID |-> "2000001", MemberName |-> "Bina"]>>],
     [kind |-> "scalar", value |-> 0],
     [kind |-> "corrupt", value |-> 0],
     MapDoc(EmptyMap),
     MapDoc([k \in {"2000001"} |-> [MemberName |-> "Bina"]])}

\* The add-member form: text inputs, empty when left blank.
MemberIdInputs == IDs \cup {""}
MemberNameInputs == {"", "Asha"}
MsNoInputs == {"", "7036"}

\* The add-transaction form as submitted: recovery_amount with receipt_number,
\* one left at 0, one below the tier boundary with a blank receipt, one above
\* it with a receipt.
TransactionForms ==
    {[recovery_amount |-> 0, receipt_number |-> ""],
     [recovery_amount |-> 50000, receipt_number |-> "  "],
     [recovery_amount |-> 120000, receipt_number |-> "RCP123"]}
DaysHeldInputs == {167}

\* receipt_number.strip() on the receipts of TransactionForms
Strip(s) == IF s = "  " THEN "" ELSE s

\* Arguments of direct calls of the store's methods.
bare_transaction == [Date |-> "2025-02-01", Recovery |-> 1000]
UpdateRecords == {[MemberName |-> "Renamed"]}

\* Inputs of the interest engine, around the tier boundary and on decimal ties.
EngineRecoveries == {-100, 0, 1, 365, 1825, 50000, 99999, 100000, 100001, 120000}
EngineDays == {0, 1, 3, 30, 167, 365}

RECURSIVE TotalRecords(_, _)
TotalRecords(d, ids) ==
    IF ids = {} THEN 0
    ELSE LET id == CHOOSE x \in ids : TRUE
         IN  Len(Get(d[id], "ThriftRecords", <<>>)) + TotalRecords(d, ids \ {id})

----------------------------------------------------------------------------
(* Form handlers *)

NewMember(member_name, ms_no) ==
    [MemberName     |-> member_name,
     MSNo           |-> ms_no,
     ShareCapital   |-> 800,
     OpeningBalance |-> [Date |-> "2024-12-31", ThriftBalance |-> 375463],
     ThriftRecords  |-> <<>>]

\* A faulty variant: the form without its "Member ID already exists!" branch.
add_member_page_unchecked(m, member_id, member_name, ms_no) ==
    IF member_id = "" \/ member_name = "" \/ ms_no = ""
    THEN [ret |-> "RequiredFields", m |-> m]
    ELSE [ret |-> "Added",
          m   |-> add_member(m, member_id, NewMember(member_name, ms_no))]

\* the "if submitted:" block of add_member_page
add_member_page(m, member_id, member_name, ms_no) ==
    IF member_id = "" \/ member_name = "" \/ ms_no = ""
    THEN [ret |-> "RequiredFields", m |-> m]
    ELSE IF member_id \in DOMAIN m.data
    THEN [ret |-> "DuplicateMember", m |-> m]
    ELSE [ret |-> "Added",
          m   |-> add_member(m, member_id, NewMember(member_name, ms_no))]

----------------------------------------------------------------------------
(* The state machine *)

Op(op, id, ret) == [op |-> op, id |-> id, ret |-> ret]

Init ==
    /\ doc \in InitDocs
    /\ mockFile \in MockFiles
    /\ data = EmptyMap
    /\ pc = "start"
    /\ last = Op("none", "", "")
    /\ calc = NoCalc
    /\ summary = NoSummary

\* manager = ThriftManager(): __init__ loads the document.  json.load raises
\* on a document that is no JSON and main() ends with the exception.
LoadData ==
    /\ pc = "start"
    /\ IF doc.kind = "corrupt"
       THEN /\ pc' = "crashed"
            /\ data' = EmptyMap
            /\ last' = Op("load_data", "", "raised")
       ELSE /\ pc' = "loaded"
            /\ data' = load_data(doc)
            /\ last' = Op("load_data", "", "ok")
    /\ calc' = NoCalc
    /\ summary' = NoSummary
    /\ UNCHANGED <<doc, mockFile>>

\* load_mock_data(manager), second statement of main()
StartupImport ==
    /\ pc = "loaded"
    /\ LET m == load_mock_data(Manager, mockFile)
       IN  /\ data' = m.data
           /\ doc' = m.doc
    /\ pc' = "page"
    /\ last' = Op("load_mock_data", "", "ok")
    /\ calc' = NoCalc
    /\ summary' = NoSummary
    /\ UNCHANGED mockFile

\* search_and_view_page: one member's expander is rendered
SearchAndView(member_id) ==
    /\ pc = "page"
    /\ member_id \in DOMAIN data
    /\ summary' = display_member_details(Put(data[member_id], "MemberID", member_id))
    /\ last' = Op("view", member_id, "ok")
    /\ pc' = "start"
    /\ calc' = NoCalc
    /\ UNCHANGED <<doc, mockFile, data>>

\* add_member_page with the form submitted
AddMemberPage(member_id, member_name, ms_no) ==
    /\ pc = "page"
    /\ LET r == add_member_page(Manager, member_id, member_name, ms_no)
       IN  /\ data' = r.m.data
           /\ doc' = r.m.doc
           /\ last' = Op("add_member_page", member_id, r.ret)
    /\ pc' = "start"
    /\ calc' = NoCalc
    /\ summary' = NoSummary
    /\ UNCHANGED mockFile

\* add_transaction_page with the form submitted for the selected member
AddTransactionPage(selected_member, recovery_amount, receipt_number, days_held, tieUp) ==
    /\ pc = "page"
    /\ data # EmptyMap
    /\ selected_member \in DOMAIN data
    /\ TotalRecords(data, DOMAIN data) < MaxRecords
    /\ IF recovery_amount <= 0
       THEN /\ last' = Op("add_transaction_page", selected_member, "RecoveryNotPositive")
            /\ calc' = NoCalc
            /\ UNCHANGED <<data, doc>>
       ELSE LET has_receipt == Strip(receipt_number) # ""
                interest_calc ==
                    calculate_interest(recovery_amount, days_held, has_receipt, tieUp)
                new_transaction ==
                    [Date            |-> "2025-01-14",
                     Recovery        |-> recovery_amount,
                     ReceiptNumber   |-> IF Strip(receipt_number) # ""
                                         THEN Strip(receipt_number) ELSE None,
                     Paid            |-> 0,
                     Balance         |-> 0,
                     DaysHeld        |-> days_held,
                     InterestRate    |-> interest_calc.InterestRate,
                     InterestAmount  |-> interest_calc.InterestAmount,
                     TransactionType |-> interest_calc.TransactionType,
                     InterestBand    |-> interest_calc.InterestBand]
                r == add_transaction(Manager, selected_member, new_transaction)
            IN  /\ data' = r.m.data
                /\ doc' = r.m.doc
                /\ calc' = CalcOf(recovery_amount, days_held, has_receipt, tieUp)
                /\ last' = Op("add_transaction_page", selected_member,
                              IF r.ret THEN "Added" ELSE "Failed")
    /\ pc' = "start"
    /\ summary' = NoSummary
    /\ UNCHANGED mockFile

\* data_management_page, button "Reload Mock Data"
ReloadMockData ==
    /\ pc = "page"
    /\ LET m == load_mock_data([Manager EXCEPT !.data = EmptyMap], mockFile)
       IN  /\ data' = m.data
           /\ doc' = m.doc
    /\ last' = Op("reload_mock_data", "", "ok")
    /\ pc' = "start"
    /\ calc' = NoCalc
    /\ summary' = NoSummary
    /\ UNCHANGED mockFile

\* data_management_page, button "Clear All Data"
ClearAllData ==
    /\ pc = "page"
    /\ LET m == save_data([Manager EXCEPT !.data = EmptyMap])
       IN  /\ data' = m.data
           /\ doc' = m.doc
    /\ last' = Op("clear_all_data", "", "ok")
    /\ pc' = "start"
    /\ calc' = NoCalc
    /\ summary' = NoSummary
    /\ UNCHANGED mockFile

\* manager.add_transaction(member_id, transaction) called with any id
StoreAddTransaction(member_id, transaction) ==
    /\ pc = "page"
    /\ TotalRecords(data, DOMAIN data) < MaxRecords
    /\ LET r == add_transaction(Manager, member_id, transaction)
       IN  /\ data' = r.m.data
           /\ doc' = r.m.doc
           /\ last' = Op("add_transaction", member_id, IF r.ret THEN "True" ELSE "False")
    /\ pc' = "start"
    /\ calc' = NoCalc
    /\ summary' = NoSummary
    /\ UNCHANGED mockFile

\* manager.update_member(member_id, member_data) called with any id
StoreUpdateMember(member_id, member_data) ==
    /\ pc = "page"
    /\ LET m == update_member(Manager, member_id, member_data)
       IN  /\ data' = m.data
           /\ doc' = m.doc
    /\ last' = Op("update_member", member_id, "ok")
    /\ pc' = "start"
    /\ calc' = NoCalc
    /\ summary' = NoSummary
    /\ UNCHANGED mockFile

Next ==
    \/ LoadData
    \/ StartupImport
    \/ \E member_id \in IDs : SearchAndView(member_id)
    \/ \E member_id \in MemberIdInputs, member_name \in MemberNameInputs,
          ms_no \in MsNoInputs :
            AddMemberPage(member_id, member_name, ms_no)
    \/ \E selected_member \in IDs, form \in TransactionForms,
          days_held \in DaysHeldInputs, tieUp \in BOOLEAN :
            AddTransactionPage(selected_member, form.recovery_amount,
                               form.receipt_number, days_held, tieUp)
    \/ ReloadMockData
    \/ ClearAllData
    \/ \E member_id \in IDs : StoreAddTransaction(member_id, bare_transaction)
    \/ \E member_id \in IDs, member_data \in UpdateRecords :
            StoreUpdateMember(member_id, member_data)

Spec == Init /\ [][Next]_vars

\* The interest engine alone: calculate_interest applied to drawn inputs.
Calculate(recovery_amount, days_held, has_receipt, tieUp) ==
    /\ calc' = CalcOf(recovery_amount, days_held, has_receipt, tieUp)
    /\ last' = Op("calculate_interest", "", "ok")
    /\ UNCHANGED <<doc, mockFile, data, pc, summary>>

NextEngine ==
    \E recovery_amount \in EngineRecoveries, days_held \in EngineDays,
       has_receipt \in BOOLEAN, tieUp \in BOOLEAN :
        Calculate(recovery_amount, days_held, has_receipt, tieUp)

InitEngine ==
    /\ doc = [kind |-> "absent", value |-> 0]
    /\ mockFile = [kind |-> "missing", elems |-> <<>>]
    /\ data = EmptyMap
    /\ pc = "start"
    /\ last = Op("none", "", "")
    /\ calc = NoCalc
    /\ summary = NoSummary

SpecEngine == InitEngine /\ [][NextEngine]_vars

----------------------------------------------------------------------------
(* Claims about the interest engine, under SpecEngine *)

\* C1: calculate_interest returns InterestRate 10.8 when recoveryAmount is
\* at least 100000 (100000 included) and 8.5 below it, whatever daysHeld
\* and hasReceipt are.
C1_TierRate ==
    calc.called =>
        /\ calc.recovery_amount >= 100000 => calc.result.InterestRate = 108
        /\ calc.recovery_amount < 100000 => calc.result.InterestRate = 85

C1_Witness ==
    /\ calc.called
    /\ calc.recovery_amount = 100000
    /\ calc.days_held = 30
    /\ ~calc.has_receipt
    /\ calc.result.InterestRate = 108

\* C2: for recoveryAmount > 0 and daysHeld >= 1 the InterestAmount is
\* recoveryAmount * rate * daysHeld / 36500 rounded to 2 decimals, rate
\* being the tier rate returned: a whole number of paise, not negative,
\* and no further than half a paisa from the exact value.  With
\* k = rate * daysHeld (rate in tenths of a percent) the exact value is
\* recoveryAmount * k / 3650 paise; the distance is taken after the whole
\* multiples of 3650 in recoveryAmount are set aside.
C2_InterestAmount ==
    (calc.called /\ calc.recovery_amount > 0 /\ calc.days_held >= 1) =>
        LET k     == calc.result.InterestRate * calc.days_held
            whole == (calc.recovery_amount \div 3650) * k
            part  == (calc.recovery_amount % 3650) * k
            off   == (calc.result.InterestAmount - whole) * 3650 - part
        IN  /\ calc.result.InterestAmount \in Nat
            /\ 2 * off <= 3650
            /\ 2 * off >= -3650

\* an amount that is rounded up: 50000 at 8.5 for 30 days is 349.3150...
C2_Witness ==
    /\ calc.called
    /\ calc.recovery_amount = 50000
    /\ calc.days_held = 30
    /\ calc.result.InterestAmount = 34932

----------------------------------------------------------------------------
(* Claims about the store, the import and the summary, under Spec *)

\* The member of the scenario of C3: opening thrift balance 375463 and
\* exactly one transaction, Recovery 120000 held 167 days with a receipt.
C3_ScenarioMember(member) ==
    /\ Get(Get(member, "OpeningBalance", EmptyMap), "ThriftBalance", 0) = 375463
    /\ Len(Get(member, "ThriftRecords", <<>>)) = 1
    /\ Get(member.ThriftRecords[1], "Recovery", 0) = 120000
    /\ Get(member.ThriftRecords[1], "DaysHeld", 0) = 167
    /\ Get(member.ThriftRecords[1], "ReceiptNumber", None) # None

\* C3: for member 1070135 with opening thrift balance 375463 and one
\* transaction Recovery=120000, DaysHeld=167 with a receipt, the interest
\* engine yields InterestRate 10.8, InterestAmount 5910.74 and
\* TransactionType Bulk, and the summary yields finalBalance 501373.74.
C3_Scenario ==
    /\ (last.op = "add_transaction_page" /\ last.id = SampleID /\ calc.called
            /\ C3_ScenarioMember(data[SampleID])) =>
            /\ calc.result.InterestRate = 108
            /\ calc.result.InterestAmount = 591074
            /\ calc.result.TransactionType = "Bulk"
    /\ (last.op = "view" /\ last.id = SampleID /\ C3_ScenarioMember(data[SampleID])) =>
            /\ summary.shown
            /\ summary.final_balance = 50137374

\* C4: add_transaction called with a member id that is not in the store
\* returns False and leaves the in-memory mapping and the persisted
\* document as they were: no member is created, nothing is saved.
C4_AddTransactionAbsent ==
    [][(last'.op = "add_transaction" /\ last'.id \notin DOMAIN data) =>
            /\ last'.ret = "False"
            /\ data' = data
            /\ doc' = doc]_vars

\* the call failed on a store that holds another member
C4_Witness ==
    /\ last.op = "add_transaction"
    /\ last.ret = "False"
    /\ last.id \notin DOMAIN data
    /\ data # EmptyMap

\* load_mock_data is entered with an empty store: at start-up when the
\* loaded store is empty, on Reload Mock Data always (it empties the store).
ImportOnEmptyStore ==
    \/ last'.op = "load_mock_data" /\ data = EmptyMap
    \/ last'.op = "reload_mock_data"

\* The store at the moment the import calls its fallback: the elements
\* before the first one without MemberID are already inserted.
C5_PartialImport(file) ==
    IF file.kind = "list"
    THEN ImportLoop(EmptyMap, file.elems, FirstBad(file.elems) - 1)
    ELSE EmptyMap

\* the import, entered with an empty store, ends in the fallback
C5_FallbackTaken(file) == file.kind # "list" \/ FirstBad(file.elems) > 0

\* C5: a submitted add-member form whose MemberID is already in the store
\* fails with DuplicateMember and leaves the store and the document as they
\* were; with a new id it inserts the record (empty ThriftRecords), keeps
\* every other member and persists.  The sample fallback does the same for
\* member 1070135: present, the record stays and nothing is written; absent,
\* the sample record is inserted and persisted.  (A form with a required
\* field left blank is turned away before the id is looked at.)
C5_DuplicateMember ==
    [][/\ (last'.op = "add_member_page" /\ last'.id \in DOMAIN data) =>
            /\ last'.ret \in {"DuplicateMember", "RequiredFields"}
            /\ data' = data
            /\ doc' = doc
       /\ (last'.op = "add_member_page" /\ last'.id \notin DOMAIN data
                /\ last'.ret # "RequiredFields") =>
            /\ last'.ret = "Added"
            /\ DOMAIN data' = DOMAIN data \cup {last'.id}
            /\ data'[last'.id].ThriftRecords = <<>>
            /\ \A k \in DOMAIN data : data'[k] = data[k]
            /\ doc' = MapDoc(data')
       /\ (ImportOnEmptyStore /\ C5_FallbackTaken(mockFile)) =>
            IF SampleID \in DOMAIN C5_PartialImport(mockFile)
            THEN /\ data' = C5_PartialImport(mockFile)
                 /\ doc' = doc
            ELSE /\ data' = Put(C5_PartialImport(mockFile), SampleID, sample_member)
                 /\ doc' = MapDoc(data')]_vars

\* the form was refused for a member that has a transaction, which is kept
C5_Witness ==
    /\ last.op = "add_member_page"
    /\ last.ret = "DuplicateMember"
    /\ last.id \in DOMAIN data
    /\ Get(data[last.id], "ThriftRecords", <<>>) # <<>>

\* C6: when an operation that changed the in-memory mapping has run to
\* completion (add member, update member, add transaction, bulk import,
\* sample fallback, Clear All Data, Reload Mock Data, failure paths
\* included) the persisted document equals the whole in-memory mapping.
C6_PersistInFull ==
    [][(/\ last'.op \in {"add_member_page", "add_transaction_page", "add_transaction",
                         "update_member", "load_mock_data", "reload_mock_data",
                         "clear_all_data"}
        /\ data' # data) => doc' = MapDoc(data')]_vars

\* C7: load does not fail on the document's shape: no document gives the
\* empty mapping, a sequence or any other non-mapping gives the empty
\* mapping, a mapping gives exactly that mapping.
C7_LoadShape ==
    (last.op = "load_data" /\ doc.kind \in {"absent", "seq", "scalar", "map"}) =>
        /\ last.ret = "ok"
        /\ pc = "loaded"
        /\ doc.kind = "absent" => data = EmptyMap
        /\ doc.kind \in {"seq", "scalar"} => data = EmptyMap
        /\ doc.kind = "map" => data = doc.value

\* a document that is a sequence was loaded as the empty mapping
C7_Witness ==
    /\ last.op = "load_data"
    /\ doc.kind = "seq"
    /\ pc = "loaded"
    /\ data = EmptyMap

RECURSIVE C8_RecoveryTo(_, _)
C8_RecoveryTo(transactions, n) ==
    IF n = 0 THEN 0
    ELSE C8_RecoveryTo(transactions, n - 1)
         + (IF "Recovery" \in DOMAIN transactions[n] THEN transactions[n].Recovery ELSE 0)

RECURSIVE C8_InterestTo(_, _)
C8_InterestTo(transactions, n) ==
    IF n = 0 THEN 0
    ELSE C8_InterestTo(transactions, n - 1)
         + (IF /\ "InterestRate" \in DOMAIN transactions[n]
               /\ transactions[n].InterestRate \in {108, 85}
               /\ "InterestAmount" \in DOMAIN transactions[n]
            THEN transactions[n].InterestAmount ELSE 0)

C8_Opening(member) ==
    IF "OpeningBalance" \in DOMAIN member /\ "ThriftBalance" \in DOMAIN member.OpeningBalance
    THEN member.OpeningBalance.ThriftBalance
    ELSE 0

\* C8 as stated: the summary over an empty transaction list has all fields
\* zero and finalBalance equal to the opening thrift balance, and in general
\* finalBalance = opening thrift balance + totalRecovery + grandInterest.
C8_EmptyListAllZero ==
    last.op = "view" =>
        LET member       == data[last.id]
            transactions == Get(member, "ThriftRecords", <<>>)
        IN  /\ transactions = <<>> =>
                summary = [shown          |-> TRUE,
                           total_recovery |-> 0,
                           interest_108   |-> 0,
                           interest_85    |-> 0,
                           grand_interest |-> 0,
                           final_balance  |-> 100 * C8_Opening(member)]
            /\ summary.final_balance =
                    100 * C8_Opening(member) + summary.total_recovery
                        + summary.grand_interest

\* C8 as amended: over an empty transaction list no summary is produced at
\* all; over a non-empty one totalRecovery sums Recovery, grandInterest sums
\* the InterestAmount of the transactions at 10.8 and at 8.5, absent fields
\* count as 0, and finalBalance = opening thrift balance + totalRecovery +
\* grandInterest.
C8_Summary ==
    last.op = "view" =>
        LET member       == data[last.id]
            transactions == Get(member, "ThriftRecords", <<>>)
            n            == Len(transactions)
        IN  /\ transactions = <<>> => summary = NoSummary
            /\ transactions # <<>> =>
                /\ summary.shown
                /\ summary.total_recovery = 100 * C8_RecoveryTo(transactions, n)
                /\ summary.grand_interest = C8_InterestTo(transactions, n)
                /\ summary.grand_interest = summary.interest_108 + summary.interest_85
                /\ summary.final_balance =
                        100 * C8_Opening(member) + 100 * C8_RecoveryTo(transactions, n)
                            + C8_InterestTo(transactions, n)

\* a member without transactions was viewed and no summary was produced
C8_Witness ==
    /\ last.op = "view"
    /\ "ThriftRecords" \in DOMAIN data[last.id]
    /\ data[last.id].ThriftRecords = <<>>
    /\ summary = NoSummary

\* C9: the bulk import inserts only into an empty store.  Run on a store
\* that holds a member it changes neither the mapping nor the document,
\* whatever the import file is.  Run on an empty store with a file whose
\* elements all carry a MemberID, the keys of the store are the MemberIDs
\* of the elements and the record under a key is the element without its
\* MemberID (the last such element when a MemberID repeats), persisted.
C9_ImportOnlyWhenEmpty ==
    [][/\ (last'.op = "load_mock_data" /\ data # EmptyMap) =>
            /\ data' = data
            /\ doc' = doc
       /\ (/\ ImportOnEmptyStore
           /\ mockFile.kind = "list"
           /\ \A i \in 1..Len(mockFile.elems) : "MemberID" \in DOMAIN mockFile.elems[i]) =>
            LET elems == mockFile.elems
            IN  /\ DOMAIN data' = {elems[i].MemberID : i \in 1..Len(elems)}
                /\ \A i \in 1..Len(elems) :
                    (\A j \in (i + 1)..Len(elems) : elems[j].MemberID # elems[i].MemberID)
                    => data'[elems[i].MemberID] =
                            [f \in DOMAIN elems[i] \ {"MemberID"} |-> elems[i][f]]
                /\ doc' = MapDoc(data')]_vars

\* the start-up import ran on a store holding a member and left out a
\* member the (well-formed) import file lists
C9_Witness ==
    /\ last.op = "load_mock_data"
    /\ data # EmptyMap
    /\ mockFile.kind = "list"
    /\ \A i \in 1..Len(mockFile.elems) : "MemberID" \in DOMAIN mockFile.elems[i]
    /\ \E i \in 1..Len(mockFile.elems) : mockFile.elems[i].MemberID \notin DOMAIN data

\* C10: when the import file is missing or unreadable and the import runs
\* on an empty store, the store afterwards is not empty, holds the built-in
\* sample record under 1070135, and is persisted; the run goes on.
C10_ImportFailureFallback ==
    [][(ImportOnEmptyStore /\ mockFile.kind \in {"missing", "unreadable"}) =>
            /\ data' # EmptyMap
            /\ SampleID \in DOMAIN data'
            /\ data'[SampleID] = sample_member
            /\ doc' = MapDoc(data')
            /\ pc' # "crashed"]_vars

\* Reload Mock Data with an unreadable file left the sample record, saved
C10_Witness ==
    /\ last.op = "reload_mock_data"
    /\ mockFile.kind = "unreadable"
    /\ DOMAIN data = {SampleID}
    /\ data[SampleID] = sample_member
    /\ doc = MapDoc(data)

----------------------------------------------------------------------------
(* Claims about sequences of operations, under Spec *)

C11_Records(member) == IF "ThriftRecords" \in DOMAIN member THEN member.ThriftRecords ELSE <<>>

C11_IsPrefix(s, t) == Len(s) <= Len(t) /\ \A i \in 1..Len(s) : s[i] = t[i]

\* every member stays and its transactions stay, in order, at the front
C11_Kept ==
    \A k \in DOMAIN data :
        /\ k \in DOMAIN data'
        /\ C11_IsPrefix(C11_Records(data[k]), C11_Records(data'[k]))

\* a successful add_transaction put one transaction at the end of the target
\* member's sequence and left every other member as it was
C11_OneAppended ==
    (/\ last'.op \in {"add_transaction", "add_transaction_page"}
     /\ last'.ret \in {"True", "Added"}) =>
        /\ DOMAIN data' = DOMAIN data
        /\ last'.id \in DOMAIN data
        /\ Len(C11_Records(data'[last'.id])) = Len(C11_Records(data[last'.id])) + 1
        /\ C11_IsPrefix(C11_Records(data[last'.id]), C11_Records(data'[last'.id]))
        /\ \A k \in DOMAIN data \ {last'.id} : data'[k] = data[k]

\* C11: transactions are append-only.  Over every step that is no whole-store
\* clear (Clear All Data, Reload Mock Data) and no full-record overwrite
\* (update_member), every member of the store is still in the store and its
\* ThriftRecords before the step is a prefix of its ThriftRecords after it;
\* a successful add_transaction appends exactly one transaction to the
\* target member and changes no other member.
C11_AppendOnly ==
    [][/\ last'.op \notin {"clear_all_data", "reload_mock_data", "update_member"}
            => C11_Kept
       /\ C11_OneAppended]_vars

\* The same with one step set aside: the load of a run whose document is not
\* the mapping the previous run left in memory.
C11_AppendOnlyWhenPersisted ==
    [][/\ (/\ last'.op \notin {"clear_all_data", "reload_mock_data", "update_member"}
           /\ ~(last'.op = "load_data" /\ doc # MapDoc(data)))
            => C11_Kept
       /\ C11_OneAppended]_vars

\* the import file names a member: some element carries a MemberID
C12_ListsAMember(file) ==
    /\ file.kind = "list"
    /\ \E i \in 1..Len(file.elems) : "MemberID" \in DOMAIN file.elems[i]

\* C12: an empty store does not survive a start-up.  When the store loaded
\* at the start of a run of main() is empty and the import file is missing,
\* unreadable or lists at least one member, the store the pages of that run
\* see is not empty and has been persisted; so it is after Clear All Data
\* and the rerun that follows it.
C12_EmptyStoreRepopulated ==
    [][(/\ last'.op = "load_mock_data"
        /\ data = EmptyMap
        /\ \/ mockFile.kind \in {"missing", "unreadable"}
           \/ C12_ListsAMember(mockFile)) =>
            /\ pc' = "page"
            /\ data' # EmptyMap
            /\ doc' = MapDoc(data')]_vars

\* The same with the import files set aside whose list puts member 1070135
\* into the store and then fails on an element without MemberID.
C12_RepopulatedUnlessPartial ==
    [][(/\ last'.op = "load_mock_data"
        /\ data = EmptyMap
        /\ \/ mockFile.kind \in {"missing", "unreadable"}
           \/ C12_ListsAMember(mockFile)
        /\ ~(/\ C5_FallbackTaken(mockFile)
             /\ SampleID \in DOMAIN C5_PartialImport(mockFile))) =>
            /\ pc' = "page"
            /\ data' # EmptyMap
            /\ doc' = MapDoc(data')]_vars

====
